---- MODULE Spec2Model ----
(***************************************************************************)
(* Benkhawiya cosmic reasoning API: the engine of                          *)
(* app/core/cosmic_engine.py (catalog of 42 principles, the four aspect    *)
(* frameworks, the council consultation with its four concurrent aspect    *)
(* analyses, the golden-ratio progression) and the request handlers of     *)
(* app/main.py (lifespan, /health, /principles, /council/consult,          *)
(* /mathematics/golden-ratio/{n}).                                         *)
(*                                                                         *)
(* Text is modelled by TLA+ strings, character for character.  Floats are  *)
(* modelled as exact multiples of 1/10000 (0.85 is 8500, 0.75 is 7500).    *)
(* Python's None is the empty sequence and a present value v is <<v>>.     *)
(* A dict is the set of its <<key, value>> pairs.                          *)
(***************************************************************************)
EXTENDS Integers, Sequences, FiniteSets, TLC

VARIABLES started, cosmic_engine, pc, request, tasks, response, calls

vars == <<started, cosmic_engine, pc, request, tasks, response, calls>>

-----------------------------------------------------------------------------
(* Bounds of the model.                                                    *)

\* Number of connections, each with at most one request in flight.
MaxReq == 2

\* How far below 0 and above 100 the inputs n of SpecGolden are drawn.
NMargin == 1

\* Largest number of consecutive catalog entries that the engines of
\* SpecAnalyze hold.
CatalogWindow == 3

\* How far below and above the slice lengths 50 and 60 the lengths of the
\* recommendation texts of SpecSynth are drawn.
SliceMargin == 1

Req == 1..MaxReq

-----------------------------------------------------------------------------
(* class CouncilAspect(str, Enum): the members and their values, in        *)
(* declaration order.                                                      *)

SEWU == "sewu"
PELU == "pelu"
RUWA == "ruwa"
TEMU == "temu"

CouncilAspect == <<SEWU, PELU, RUWA, TEMU>>

Aspects == {CouncilAspect[i] : i \in 1..Len(CouncilAspect)}

None == <<>>

Some(v) == <<v>>

-----------------------------------------------------------------------------
(* Python text helpers.                                                    *)

Min(a, b) == IF a <= b THEN a ELSE b

\* s[:k] for k >= 0
Slice(s, k) == SubSeq(s, 1, Min(k, Len(s)))

\* the upper-case letter of each lower-case ASCII letter
UpperLetter ==
    [a |-> "A", b |-> "B", c |-> "C", d |-> "D", e |-> "E", f |-> "F", g |-> "G",
     h |-> "H", i |-> "I", j |-> "J", k |-> "K", l |-> "L", m |-> "M", n |-> "N",
     o |-> "O", p |-> "P", q |-> "Q", r |-> "R", s |-> "S", t |-> "T", u |-> "U",
     v |-> "V", w |-> "W", x |-> "X", y |-> "Y", z |-> "Z"]

UpperChar(c) == IF c \in DOMAIN UpperLetter THEN UpperLetter[c] ELSE c

RECURSIVE upper(_)
\* str.upper()
upper(s) ==
    IF Len(s) = 0 THEN ""
    ELSE UpperChar(SubSeq(s, 1, 1)) \o upper(SubSeq(s, 2, Len(s)))

RECURSIVE join(_, _)
\* sep.join(parts)
join(sep, parts) ==
    IF Len(parts) = 0 THEN ""
    ELSE IF Len(parts) = 1 THEN parts[1]
    ELSE parts[1] \o sep \o join(sep, Tail(parts))

\* repr() of a str without quotes or escapes in it
repr_str(s) == "'" \o s \o "'"

\* str() of a list of such strs, as an f-string renders it
str_list(l) == "[" \o join(", ", [i \in 1..Len(l) |-> repr_str(l[i])]) \o "]"

\* as Take, but with one element more
Take_more(l, k) == SubSeq(l, 1, Min(k + 1, Len(l)))

\* list[:k]
Take(l, k) == SubSeq(l, 1, Min(k, Len(l)))

-----------------------------------------------------------------------------
(* BenkhawiyaEngine: the data built by __init__.  The field                *)
(* mathematical_representation of a principle is left out: no operation    *)
(* reads it.                                                               *)

initialize_cosmic_principles ==
    << [id |-> 1, name |-> "DÁNÁ", meaning |-> "Truth Alignment",
       description |-> "Fundamental reality alignment and cosmic truth measurement",
       council_aspect |-> PELU,
       practical_application |-> "Reality verification and truth discernment"],
       [id |-> 2, name |-> "KÉLÚ", meaning |-> "Boundary Clarity",
       description |-> "Clear delineation of sacred boundaries and limits",
       council_aspect |-> PELU,
       practical_application |-> "Setting healthy boundaries and limits"],
       [id |-> 3, name |-> "SÉTÁ", meaning |-> "Precision Measurement",
       description |-> "Accurate measurement and assessment of reality",
       council_aspect |-> PELU,
       practical_application |-> "Data-driven decision making"],
       [id |-> 4, name |-> "WÉNÁ", meaning |-> "Integrity Shield",
       description |-> "Protection and maintenance of wholeness and authenticity",
       council_aspect |-> PELU,
       practical_application |-> "Maintaining ethical standards"],
       [id |-> 5, name |-> "PÉKÁ", meaning |-> "Discernment Light",
       description |-> "Clear seeing and wise judgment of situations",
       council_aspect |-> PELU,
       practical_application |-> "Critical thinking and analysis"],
       [id |-> 6, name |-> "RÉNÁ", meaning |-> "Truth Resonance",
       description |-> "Vibrational alignment with fundamental truth",
       council_aspect |-> PELU,
       practical_application |-> "Authenticity in communication"],
       [id |-> 7, name |-> "TÉLÚ", meaning |-> "Test Validation",
       description |-> "Verification through rigorous testing",
       council_aspect |-> PELU,
       practical_application |-> "Quality assurance processes"],
       [id |-> 8, name |-> "MÉKÁ", meaning |-> "Standard Calibration",
       description |-> "Alignment with universal standards and measures",
       council_aspect |-> PELU,
       practical_application |-> "Standardization and consistency"],
       [id |-> 9, name |-> "DÉWÁ", meaning |-> "Honesty Core",
       description |-> "Foundation of truthful expression and transparency",
       council_aspect |-> PELU,
       practical_application |-> "Transparent communication"],
       [id |-> 10, name |-> "LÉNÁ", meaning |-> "Law Harmony",
       description |-> "Alignment with natural and cosmic law",
       council_aspect |-> PELU,
       practical_application |-> "Legal and ethical compliance"],
       [id |-> 11, name |-> "NÉKÁ", meaning |-> "Clarity Beacon",
       description |-> "Illumination of truth in darkness",
       council_aspect |-> PELU,
       practical_application |-> "Clear documentation and teaching"],
       [id |-> 12, name |-> "MÁTÁ", meaning |-> "Justice Balance",
       description |-> "Right relationship and cosmic balance maintenance",
       council_aspect |-> TEMU,
       practical_application |-> "Fairness and equitable distribution"],
       [id |-> 13, name |-> "FÍSÁ", meaning |-> "Golden Proportion",
       description |-> "Divine proportion and harmonic ratios in manifestation",
       council_aspect |-> TEMU,
       practical_application |-> "Aesthetic and functional design"],
       [id |-> 14, name |-> "RÍTÁ", meaning |-> "Sacred Timing",
       description |-> "Perfect timing and synchronization with cosmic cycles",
       council_aspect |-> TEMU,
       practical_application |-> "Project planning and scheduling"],
       [id |-> 15, name |-> "SÍMÁ", meaning |-> "Symmetry Order",
       description |-> "Balanced structure and mirrored harmony",
       council_aspect |-> TEMU,
       practical_application |-> "Organizational structure design"],
       [id |-> 16, name |-> "KRÍÁ", meaning |-> "Crystalline Matrix",
       description |-> "Perfect geometric structure and lattice formation",
       council_aspect |-> TEMU,
       practical_application |-> "Systems architecture"],
       [id |-> 17, name |-> "BÓNÁ", meaning |-> "Foundation Strength",
       description |-> "Solid base and structural integrity",
       council_aspect |-> TEMU,
       practical_application |-> "Infrastructure development"],
       [id |-> 18, name |-> "DRÍÁ", meaning |-> "Distribution Flow",
       description |-> "Optimal resource allocation and flow",
       council_aspect |-> TEMU,
       practical_application |-> "Resource management"],
       [id |-> 19, name |-> "KÓNÁ", meaning |-> "Sacred Geometry",
       description |-> "Divine patterns in form and structure",
       council_aspect |-> TEMU,
       practical_application |-> "Spatial planning"],
       [id |-> 20, name |-> "TRÍÁ", meaning |-> "Threefold Unity",
       description |-> "Trinity principle in manifestation",
       council_aspect |-> TEMU,
       practical_application |-> "Three-pillar frameworks"],
       [id |-> 21, name |-> "MÉNÁ", meaning |-> "Measure Exactness",
       description |-> "Precise quantification and metrics",
       council_aspect |-> TEMU,
       practical_application |-> "Performance measurement"],
       [id |-> 22, name |-> "ÁRÍÁ", meaning |-> "Hierarchical Order",
       description |-> "Natural ordering and stratification",
       council_aspect |-> TEMU,
       practical_application |-> "Organizational hierarchy"],
       [id |-> 23, name |-> "HÓTÉ", meaning |-> "Harmonic Integration",
       description |-> "Coherent integration of diverse elements into unified whole",
       council_aspect |-> SEWU,
       practical_application |-> "Conflict resolution and relationship harmony"],
       [id |-> 24, name |-> "LÚVÁ", meaning |-> "Love Resonance",
       description |-> "Vibrational frequency of unconditional love",
       council_aspect |-> SEWU,
       practical_application |-> "Compassionate relationships"],
       [id |-> 25, name |-> "ÚNÍÁ", meaning |-> "Unity Consciousness",
       description |-> "Recognition of interconnectedness of all being",
       council_aspect |-> SEWU,
       practical_application |-> "Community building"],
       [id |-> 26, name |-> "KÁRÉ", meaning |-> "Care Nurturing",
       description |-> "Tender attention and supportive growth",
       council_aspect |-> SEWU,
       practical_application |-> "Mentorship and support"],
       [id |-> 27, name |-> "ÉMÚÁ", meaning |-> "Empathy Bridge",
       description |-> "Deep understanding and emotional resonance",
       council_aspect |-> SEWU,
       practical_application |-> "Active listening"],
       [id |-> 28, name |-> "SHÁNÁ", meaning |-> "Sharing Flow",
       description |-> "Generous circulation of resources and wisdom",
       council_aspect |-> SEWU,
       practical_application |-> "Knowledge sharing"],
       [id |-> 29, name |-> "HÍLÁ", meaning |-> "Healing Presence",
       description |-> "Restorative energy and therapeutic power",
       council_aspect |-> SEWU,
       practical_application |-> "Healing practices"],
       [id |-> 30, name |-> "GRÁWÁ", meaning |-> "Growth Cultivation",
       description |-> "Organic development and evolutionary progress",
       council_aspect |-> SEWU,
       practical_application |-> "Personal development"],
       [id |-> 31, name |-> "PÉWÁ", meaning |-> "Peace Stillness",
       description |-> "Tranquil center and harmonious equilibrium",
       council_aspect |-> SEWU,
       practical_application |-> "Meditation and calm"],
       [id |-> 32, name |-> "JÓYÁ", meaning |-> "Joy Radiance",
       description |-> "Light emanation of happiness and celebration",
       council_aspect |-> SEWU,
       practical_application |-> "Positive environment"],
       [id |-> 33, name |-> "VÍSÁ", meaning |-> "Vision Sight",
       description |-> "Clear perception of future possibilities",
       council_aspect |-> RUWA,
       practical_application |-> "Strategic planning"],
       [id |-> 34, name |-> "CRÉÁ", meaning |-> "Creative Force",
       description |-> "Generative power of imagination and innovation",
       council_aspect |-> RUWA,
       practical_application |-> "Innovation and creativity"],
       [id |-> 35, name |-> "ÉXPÁ", meaning |-> "Expansion Wave",
       description |-> "Outward growth and boundary transcendence",
       council_aspect |-> RUWA,
       practical_application |-> "Market expansion"],
       [id |-> 36, name |-> "TRÁNÁ", meaning |-> "Transformation Alchemy",
       description |-> "Fundamental change and metamorphosis",
       council_aspect |-> RUWA,
       practical_application |-> "Change management"],
       [id |-> 37, name |-> "INSÁ", meaning |-> "Insight Flash",
       description |-> "Sudden illumination and epiphany",
       council_aspect |-> RUWA,
       practical_application |-> "Breakthrough thinking"],
       [id |-> 38, name |-> "PÓSSÁ", meaning |-> "Possibility Field",
       description |-> "Quantum potential and multiple futures",
       council_aspect |-> RUWA,
       practical_application |-> "Scenario planning"],
       [id |-> 39, name |-> "IMÁGÁ", meaning |-> "Imagination Power",
       description |-> "Mental creation and visualization strength",
       council_aspect |-> RUWA,
       practical_application |-> "Visioning exercises"],
       [id |-> 40, name |-> "NÓVÁ", meaning |-> "Innovation Spark",
       description |-> "Novel combination and inventive solutions",
       council_aspect |-> RUWA,
       practical_application |-> "Product development"],
       [id |-> 41, name |-> "FÓRÉÁ", meaning |-> "Foresight Wisdom",
       description |-> "Anticipatory knowledge and prophetic vision",
       council_aspect |-> RUWA,
       practical_application |-> "Risk assessment"],
       [id |-> 42, name |-> "ÉVÓÁ", meaning |-> "Evolution Drive",
       description |-> "Progressive development toward higher complexity",
       council_aspect |-> RUWA,
       practical_application |-> "Continuous improvement"] >>


initialize_aspect_frameworks ==
    [a \in Aspects |->
       CASE a = SEWU ->
              [focus |-> <<"nurturing", "connection", "emotional_intelligence", "community">>,
               questions |-> <<"How does this nurture growth and relationships?",
                               "What connections need cultivation?",
                               "How does this affect communal harmony?">>,
               weight |-> 2500]
         [] a = PELU ->
              [focus |-> <<"truth", "boundaries", "integrity", "measurement">>,
               questions |-> <<"What is the fundamental truth here?",
                               "What boundaries ensure integrity?",
                               "How do we measure accuracy and alignment?">>,
               weight |-> 2500]
         [] a = RUWA ->
              [focus |-> <<"vision", "possibility", "innovation", "perspective">>,
               questions |-> <<"What future possibilities does this reveal?",
                               "How can perspective be expanded?",
                               "What visionary paths are available?">>,
               weight |-> 2500]
         [] a = TEMU ->
              [focus |-> <<"structure", "proportion", "timing", "manifestation">>,
               questions |-> <<"What structural integrity is needed?",
                               "How is cosmic proportion maintained?",
                               "What is the optimal timing for manifestation?">>,
               weight |-> 2500]]

\* BenkhawiyaEngine(): phi is kept symbolic, pi is never read.
BenkhawiyaEngine ==
    [phi |-> "(1+sqrt(5))/2",
     principles |-> initialize_cosmic_principles,
     aspect_frameworks |-> initialize_aspect_frameworks]

-----------------------------------------------------------------------------
(* BenkhawiyaEngine: the methods.                                          *)

\* as get_principles_by_aspect, but with the comparison negated
get_principles_by_aspect_not(engine, aspect) ==
    LET Has(p) == p.council_aspect # aspect
    IN  SelectSeq(engine.principles, Has)

\* as get_principles_by_aspect, but at most 10 entries are returned
get_principles_by_aspect_limit(engine, aspect) ==
    LET Has(p) == p.council_aspect = aspect
    IN  Take(SelectSeq(engine.principles, Has), 10)

\* [p for p in self.principles if p.council_aspect == aspect]
get_principles_by_aspect(engine, aspect) ==
    LET Has(p) == p.council_aspect = aspect
    IN  SelectSeq(engine.principles, Has)

\* coherence_score: float = Field(ge=0, le=1)
CouncilPerspectiveValid(p) ==
    /\ p.coherence_score >= 0
    /\ p.coherence_score <= 10000

COHERENCE_SCORE == 8500

\* as analyze_aspect, but a context that has entries is named in the
\* recommendation
analyze_aspect_ctx(engine, q, aspect, ctx) ==
    LET framework == engine.aspect_frameworks[aspect]
        Has(p) == p.council_aspect = aspect
        principles == SelectSeq(engine.principles, Has)
        first == Take(principles, 2)
        names == [i \in 1..Len(first) |-> first[i].name]
    IN  [aspect |-> aspect,
         perspective |-> upper(aspect) \o " analyzes through " \o str_list(framework.focus),
         reasoning |-> "Considering: " \o join(" | ", framework.questions),
         recommendation |-> IF ctx = {} THEN "Apply principles: " \o str_list(names)
                            ELSE "Apply principles in context",
         principles_applied |-> names,
         coherence_score |-> COHERENCE_SCORE]

\* The CouncilPerspective that _analyze_aspect builds.
analyze_aspect(engine, q, aspect, ctx) ==
    LET framework == engine.aspect_frameworks[aspect]
        Has(p) == p.council_aspect = aspect
        principles == SelectSeq(engine.principles, Has)
        first == Take(principles, 2)
        names == [i \in 1..Len(first) |-> first[i].name]
    IN  [aspect |-> aspect,
         perspective |-> upper(aspect) \o " analyzes through " \o str_list(framework.focus),
         reasoning |-> "Considering: " \o join(" | ", framework.questions),
         recommendation |-> "Apply principles: " \o str_list(names),
         principles_applied |-> names,
         coherence_score |-> COHERENCE_SCORE]

(* A dict keeps its keys in insertion order; it is the sequence of its     *)
(* <<key, value>> items.  d[k] = v replaces the value of a key already     *)
(* there, in place, and appends a new key.                                 *)
dict_keys(d) == [i \in 1..Len(d) |-> d[i][1]]

dict_values(d) == [i \in 1..Len(d) |-> d[i][2]]

dict_set(d, k, v) ==
    IF \E i \in 1..Len(d) : d[i][1] = k
    THEN [i \in 1..Len(d) |-> IF d[i][1] = k THEN <<k, v>> ELSE d[i]]
    ELSE Append(d, <<k, v>>)

\* as dict_by_aspect, but only the last perspective is kept
dict_by_aspect_last(d, perspectives) ==
    IF Len(perspectives) = 0 THEN d
    ELSE dict_set(d, perspectives[Len(perspectives)].aspect, perspectives[Len(perspectives)])

RECURSIVE dict_by_aspect(_, _)
\* {p.aspect: p for p in perspectives}, continued from d
dict_by_aspect(d, perspectives) ==
    IF Len(perspectives) = 0 THEN d
    ELSE dict_by_aspect(dict_set(d, perspectives[1].aspect, perspectives[1]),
                        Tail(perspectives))

\* as INTEGRATED_SLICE, but the length of the other slice
INTEGRATED_SLICE_60 == 50 + 10

INTEGRATED_SLICE == 50

\* as ACTION_SLICE, but the length of the other slice
ACTION_SLICE_50 == 60 - 10

ACTION_SLICE == 60

generate_integrated_decision(perspectives, q) ==
    LET aspects_summary ==
            join(" | ", [i \in 1..Len(perspectives) |->
                           upper(perspectives[i][1]) \o ": "
                           \o Slice(perspectives[i][2].recommendation, INTEGRATED_SLICE)
                           \o "..."])
    IN  "COSMIC DECISION: " \o q \o " → Integrated wisdom: " \o aspects_summary

generate_actions(perspectives) ==
    [i \in 1..Len(perspectives) |->
       "Apply " \o perspectives[i][1] \o " wisdom: "
       \o Slice(perspectives[i][2].recommendation, ACTION_SLICE) \o "..."]

\* as sum, but of the first element only
sum_first(l) == IF Len(l) = 0 THEN 0 ELSE l[1]

RECURSIVE sum(_)
sum(l) == IF Len(l) = 0 THEN 0 ELSE l[1] + sum(Tail(l))

\* as CONSENSUS_LEVEL, but the value of the coherence score
CONSENSUS_LEVEL_coherence == 7500 + 1000

CONSENSUS_LEVEL == 7500

DEVELOPMENTAL_STAGE == 5

synthesize_decision(perspectives, q) ==
    LET perspectives_dict == dict_by_aspect(<<>>, perspectives)
        coherence == sum([i \in 1..Len(perspectives) |-> perspectives[i].coherence_score])
                       \div Len(perspectives)
        consensus == CONSENSUS_LEVEL
        integrated == generate_integrated_decision(perspectives_dict, q)
        actions == generate_actions(perspectives_dict)
    IN  [integrated_decision |-> integrated,
         council_perspectives |-> perspectives_dict,
         consensus_level |-> consensus,
         cosmic_coherence |-> coherence,
         recommended_actions |-> actions,
         developmental_stage |-> DEVELOPMENTAL_STAGE]

\* self.phi ** n, kept symbolic
calculate_golden_progression(engine, n) == [base |-> engine.phi, exponent |-> n]

-----------------------------------------------------------------------------
(* asyncio tasks of one consultation and asyncio.gather over them.         *)

TaskNone == [state |-> "none", result |-> <<>>]

TaskPending == [state |-> "pending", result |-> <<>>]

TaskDone(p) == [state |-> "done", result |-> <<p>>]

TaskRaised == [state |-> "raised", result |-> <<>>]

NoTasks == [a \in Aspects |-> TaskNone]

\* tasks = [self._analyze_aspect(question, aspect, context) for aspect in CouncilAspect]
NewTasks == [a \in Aspects |-> TaskPending]

AnyPending(ts) == \E a \in Aspects : ts[a].state = "pending"

\* as gather_ready, but the first awaitable that returns is enough
gather_ready_any(ts) == \E a \in Aspects : ts[a].state = "done"

\* as gather_ready, but an awaitable that raised counts as finished
gather_ready_settled(ts) == \A a \in Aspects : ts[a].state \in {"done", "raised"}

\* gather has a result: every awaitable has returned
gather_ready(ts) == \A a \in Aspects : ts[a].state = "done"

\* gather raises: an awaitable has raised (return_exceptions is False)
gather_raised(ts) == \E a \in Aspects : ts[a].state = "raised"

\* the results of gather, in the order of the awaitables
gather_results(ts) ==
    LET Done(a) == ts[a].state = "done"
        order == SelectSeq(CouncilAspect, Done)
    IN  [i \in 1..Len(order) |-> ts[order[i]].result[1]]

-----------------------------------------------------------------------------
(* Requests and responses of app/main.py.                                  *)

Questions == {"Should I change jobs?", ""}

\* context: a missing one, an empty one and one with an entry
Contexts == {None, Some({}), Some({<<"urgency", "high">>})}

\* <<question, context>> of the consultations of Spec
ConsultInputs ==
    {<<"Should I change jobs?", None>>,
     <<"", Some({<<"urgency", "high">>})>>}

\* <<question, context>> of the consultations of one connection
AllConsultInputs == Questions \X Contexts

AspectParams == {None} \cup {Some(a) : a \in Aspects}

N_MIN == 0

N_MAX == 100

\* the n of the requests of Spec: both ends of the accepted range and their
\* neighbours outside of it
GoldenInputs == {N_MIN - 1, N_MIN, N_MAX, N_MAX + 1}

\* the n of the requests of SpecGolden: the whole range and its margins
GoldenRange == (N_MIN - NMargin)..(N_MAX + NMargin)

\* as n_out_of_range, but with both ends of the range rejected
n_out_of_range_strict(n) == n <= N_MIN \/ n >= N_MAX

\* if n < 0 or n > 100
n_out_of_range(n) == n < N_MIN \/ n > N_MAX

NoRequest == [endpoint |-> "", question |-> "", context |-> {}, aspect |-> None, n |-> 0]

NoResponse == [status_code |-> 0, body |-> [detail |-> ""]]

HTTPException(code, detail) == [status_code |-> code, body |-> [detail |-> detail]]

OK(body) == [status_code |-> 200, body |-> body]

\* get_cosmic_engine raises
EngineUnavailable == cosmic_engine = None

\* as Unavailable, but with the status of an internal error
Unavailable_500 == HTTPException(500, "Cosmic reasoning engine unavailable")

Unavailable == HTTPException(503, "Cosmic reasoning engine unavailable")

\* a connection without a request
Free(r) == pc[r] = "idle"

TypeOK ==
    /\ started \in BOOLEAN
    /\ cosmic_engine \in {None, Some(BenkhawiyaEngine)}
    /\ pc \in [Req -> {"idle", "gather", "responded"}]
    /\ \A r \in Req : request[r].endpoint \in
          {"", "health", "principles", "consult", "golden", "synthesize", "analyze"}
    /\ \A r \in Req : \A a \in Aspects :
          tasks[r][a].state \in {"none", "pending", "done", "raised"}
    /\ \A r \in Req : response[r].status_code \in {0, 200, 400, 500, 503}
    /\ \A r \in Req : calls[r] \subseteq {"calculate_golden_progression", "get_principles_by_aspect",
                                          "consult_council"}

Init ==
    /\ started = FALSE
    /\ cosmic_engine = None
    /\ pc = [r \in Req |-> "idle"]
    /\ request = [r \in Req |-> NoRequest]
    /\ tasks = [r \in Req |-> NoTasks]
    /\ response = [r \in Req |-> NoResponse]
    /\ calls = [r \in Req |-> {}]

\* lifespan, up to the yield: the engine is built, or building it raises
lifespan ==
    /\ ~started
    /\ started' = TRUE
    /\ \E e \in {Some(BenkhawiyaEngine), None} : cosmic_engine' = e
    /\ UNCHANGED <<pc, request, tasks, response, calls>>

Answer(r, req, resp, called) ==
    /\ pc' = [pc EXCEPT ![r] = "responded"]
    /\ request' = [request EXCEPT ![r] = req]
    /\ response' = [response EXCEPT ![r] = resp]
    /\ calls' = [calls EXCEPT ![r] = called]
    /\ UNCHANGED <<started, cosmic_engine, tasks>>

\* GET /health
health_check(r) ==
    /\ started
    /\ Free(r)
    /\ Answer(r, [NoRequest EXCEPT !.endpoint = "health"],
              OK([status |-> IF cosmic_engine # None THEN "healthy" ELSE "degraded",
                  components |->
                    [cosmic_engine |-> cosmic_engine # None,
                     principles_loaded |->
                       IF cosmic_engine # None THEN Len(cosmic_engine[1].principles) ELSE 0]]),
              {})

\* GET /principles
get_cosmic_principles(r, aspect) ==
    /\ started
    /\ Free(r)
    /\ LET req == [NoRequest EXCEPT !.endpoint = "principles", !.aspect = aspect]
       IN  IF EngineUnavailable
           THEN Answer(r, req, Unavailable, {})
           ELSE LET engine == cosmic_engine[1]
                    principles == IF aspect # None
                                  THEN get_principles_by_aspect(engine, aspect[1])
                                  ELSE engine.principles
                IN  Answer(r, req,
                           OK([count |-> Len(principles),
                               aspect |-> IF aspect # None THEN aspect[1] ELSE "all",
                               principles |-> principles]),
                           IF aspect # None THEN {"get_principles_by_aspect"} ELSE {})

\* as golden_progression, but n is validated before the engine is asked for
golden_progression_validate_first(r, n) ==
    /\ started
    /\ Free(r)
    /\ LET req == [NoRequest EXCEPT !.endpoint = "golden", !.n = n]
       IN  IF n_out_of_range(n)
           THEN Answer(r, req, HTTPException(400, "n must be between 0 and 100"), {})
           ELSE IF EngineUnavailable
           THEN Answer(r, req, Unavailable, {})
           ELSE LET engine == cosmic_engine[1]
                    progression == calculate_golden_progression(engine, n)
                IN  Answer(r, req,
                           OK([developmental_stage |-> n,
                               golden_ratio |-> engine.phi,
                               progression_value |-> progression]),
                           {"calculate_golden_progression"})

\* GET /mathematics/golden-ratio/{n}
golden_progression(r, n) ==
    /\ started
    /\ Free(r)
    /\ LET req == [NoRequest EXCEPT !.endpoint = "golden", !.n = n]
       IN  IF EngineUnavailable
           THEN Answer(r, req, Unavailable, {})
           ELSE IF n_out_of_range(n)
           THEN Answer(r, req, HTTPException(400, "n must be between 0 and 100"), {})
           ELSE LET engine == cosmic_engine[1]
                    progression == calculate_golden_progression(engine, n)
                IN  Answer(r, req,
                           OK([developmental_stage |-> n,
                               golden_ratio |-> engine.phi,
                               progression_value |-> progression]),
                           {"calculate_golden_progression"})

\* POST /council/consult, up to the await of asyncio.gather
consult_council(r, q, ctx) ==
    /\ started
    /\ Free(r)
    /\ LET context == IF ctx = None THEN {} ELSE ctx[1]
           req == [NoRequest EXCEPT !.endpoint = "consult", !.question = q,
                                    !.context = context]
       IN  IF EngineUnavailable
           THEN Answer(r, req, Unavailable, {})
           ELSE /\ pc' = [pc EXCEPT ![r] = "gather"]
                /\ request' = [request EXCEPT ![r] = req]
                /\ tasks' = [tasks EXCEPT ![r] = NewTasks]
                /\ response' = [response EXCEPT ![r] = NoResponse]
                /\ calls' = [calls EXCEPT ![r] = {"consult_council"}]
                /\ UNCHANGED <<started, cosmic_engine>>

\* as run_analyze_aspect, but the entries of the aspect are taken out of the
\* catalog of the engine
run_analyze_aspect_consume(r, a) ==
    /\ tasks[r][a].state = "pending"
    /\ LET p == analyze_aspect(cosmic_engine[1], request[r].question, a, request[r].context)
           Others(e) == e.council_aspect # a
       IN  /\ tasks' = [tasks EXCEPT ![r][a] =
                          IF CouncilPerspectiveValid(p) THEN TaskDone(p) ELSE TaskRaised]
           /\ cosmic_engine' = Some([cosmic_engine[1] EXCEPT
                                       !.principles = SelectSeq(@, Others)])
    /\ UNCHANGED <<started, pc, request, response, calls>>

\* one task of the consultation runs _analyze_aspect to its return
run_analyze_aspect(r, a) ==
    /\ tasks[r][a].state = "pending"
    /\ LET p == analyze_aspect(cosmic_engine[1], request[r].question, a, request[r].context)
       IN  tasks' = [tasks EXCEPT ![r][a] =
                       IF CouncilPerspectiveValid(p) THEN TaskDone(p) ELSE TaskRaised]
    /\ UNCHANGED <<started, cosmic_engine, pc, request, response, calls>>

\* gather returns, _synthesize_decision runs and the handler returns the decision
consult_return(r) ==
    /\ pc[r] = "gather"
    /\ gather_ready(tasks[r])
    /\ pc' = [pc EXCEPT ![r] = "responded"]
    /\ LET perspectives == gather_results(tasks[r])
       IN  response' = [response EXCEPT ![r] =
                          IF Len(perspectives) = 0
                          THEN \* sum(...) / len(perspectives) raises ZeroDivisionError
                               HTTPException(500, "Cosmic reasoning failed")
                          ELSE OK(synthesize_decision(perspectives, request[r].question))]
    /\ UNCHANGED <<started, cosmic_engine, request, tasks, calls>>

\* one task of the consultation raises an Exception inside _analyze_aspect
\* (with the catalog and the frameworks of __init__ no statement of it does;
\* only SpecFault takes this step)
raise_analyze_aspect(r, a) ==
    /\ tasks[r][a].state = "pending"
    /\ tasks' = [tasks EXCEPT ![r][a] = TaskRaised]
    /\ UNCHANGED <<started, cosmic_engine, pc, request, response, calls>>

\* gather raises as soon as one awaitable has raised, the others keep
\* running; the handler's except turns the exception into a 500
consult_raise(r) ==
    /\ pc[r] = "gather"
    /\ gather_raised(tasks[r])
    /\ pc' = [pc EXCEPT ![r] = "responded"]
    /\ response' = [response EXCEPT ![r] = HTTPException(500, "Cosmic reasoning failed")]
    /\ UNCHANGED <<started, cosmic_engine, request, tasks, calls>>

RECURSIVE text_of_len(_)
\* a text of n characters: the digits of its positions, the last one first
text_of_len(n) ==
    IF n = 0 THEN ""
    ELSE text_of_len(n - 1) \o SubSeq("0123456789", (n % 10) + 1, (n % 10) + 1)

TextLengths ==
    ((INTEGRATED_SLICE - SliceMargin)..(INTEGRATED_SLICE + SliceMargin))
    \cup ((ACTION_SLICE - SliceMargin)..(ACTION_SLICE + SliceMargin))

Texts == {text_of_len(n) : n \in TextLengths}

\* engine._synthesize_decision(perspectives, q), with the perspectives of the
\* four aspects in the order of gather and recs as their recommendations
synthesize_call(r, q, recs) ==
    /\ started
    /\ Free(r)
    /\ ~EngineUnavailable
    /\ LET perspectives ==
               [i \in 1..Len(CouncilAspect) |->
                  [analyze_aspect(cosmic_engine[1], q, CouncilAspect[i], {})
                     EXCEPT !.recommendation = recs[i]]]
       IN  Answer(r, [NoRequest EXCEPT !.endpoint = "synthesize", !.question = q],
                  OK(synthesize_decision(perspectives, q)), {})

\* the catalogs of the engines of SpecAnalyze: the runs of at most
\* CatalogWindow consecutive entries of the catalog, the empty one included
SubCatalogs ==
    {SubSeq(initialize_cosmic_principles, i, Min(i + n - 1, Len(initialize_cosmic_principles))) :
        i \in 1..Len(initialize_cosmic_principles), n \in 0..CatalogWindow}

\* engine._analyze_aspect(q, aspect, {}) of an engine whose catalog is
\* principles; the answer keeps the catalog next to the perspective
analyze_call(r, q, aspect, principles) ==
    /\ started
    /\ Free(r)
    /\ ~EngineUnavailable
    /\ LET engine == [cosmic_engine[1] EXCEPT !.principles = principles]
       IN  Answer(r, [NoRequest EXCEPT !.endpoint = "analyze", !.question = q,
                                       !.aspect = Some(aspect)],
                  OK([perspective |-> analyze_aspect(engine, q, aspect, {}),
                      principles |-> principles]), {})

\* the response is sent and the request is over, once its tasks have ended
request_done(r) ==
    /\ pc[r] = "responded"
    /\ ~AnyPending(tasks[r])
    /\ pc' = [pc EXCEPT ![r] = "idle"]
    /\ request' = [request EXCEPT ![r] = NoRequest]
    /\ tasks' = [tasks EXCEPT ![r] = NoTasks]
    /\ response' = [response EXCEPT ![r] = NoResponse]
    /\ calls' = [calls EXCEPT ![r] = {}]
    /\ UNCHANGED <<started, cosmic_engine>>

Next ==
    \/ lifespan
    \/ \E r \in Req : health_check(r)
    \/ \E r \in Req : \E aspect \in AspectParams : get_cosmic_principles(r, aspect)
    \/ \E r \in Req : \E n \in GoldenInputs : golden_progression(r, n)
    \/ \E r \in Req : \E i \in ConsultInputs : consult_council(r, i[1], i[2])
    \/ \E r \in Req : \E a \in Aspects : run_analyze_aspect(r, a)
    \/ \E r \in Req : consult_return(r)
    \/ \E r \in Req : request_done(r)

Spec == Init /\ [][Next]_vars

(* The consultations of one connection, where an analysis may also raise.  *)
NextFault ==
    \/ lifespan
    \/ \E i \in AllConsultInputs : consult_council(1, i[1], i[2])
    \/ \E a \in Aspects : run_analyze_aspect(1, a)
    \/ consult_return(1)
    \/ \E a \in Aspects : raise_analyze_aspect(1, a)
    \/ consult_raise(1)
    \/ request_done(1)

SpecFault == Init /\ [][NextFault]_vars

(* The golden-ratio requests of two connections, over the whole range of   *)
(* n.                                                                      *)
NextGolden ==
    \/ lifespan
    \/ \E r \in {1, 2} : \E n \in GoldenRange : golden_progression(r, n)
    \/ \E r \in {1, 2} : request_done(r)

SpecGolden == Init /\ [][NextGolden]_vars

(* Two connections with every endpoint, the consultations with every     *)
(* question and every context, a missing one included.                     *)
NextContext ==
    \/ lifespan
    \/ \E r \in {1, 2} : health_check(r)
    \/ \E r \in {1, 2} : \E aspect \in AspectParams : get_cosmic_principles(r, aspect)
    \/ \E r \in {1, 2} : \E n \in GoldenInputs : golden_progression(r, n)
    \/ \E r \in {1, 2} : \E i \in AllConsultInputs : consult_council(r, i[1], i[2])
    \/ \E r \in {1, 2} : \E a \in Aspects : run_analyze_aspect(r, a)
    \/ \E r \in {1, 2} : consult_return(r)
    \/ \E r \in {1, 2} : request_done(r)

SpecContext == Init /\ [][NextContext]_vars

(* The consultations of one connection, and _synthesize_decision applied   *)
(* to perspectives whose recommendation texts have the lengths around the  *)
(* two slice lengths.                                                      *)
NextSynth ==
    \/ lifespan
    \/ \E i \in AllConsultInputs : consult_council(1, i[1], i[2])
    \/ \E a \in Aspects : run_analyze_aspect(1, a)
    \/ consult_return(1)
    \/ \E q \in Questions : \E recs \in [1..Len(CouncilAspect) -> Texts] :
          synthesize_call(1, q, recs)
    \/ request_done(1)

SpecSynth == Init /\ [][NextSynth]_vars

(* The consultations of one connection, and _analyze_aspect applied with   *)
(* catalogs that hold no, one or more entries of an aspect.                *)
NextAnalyze ==
    \/ lifespan
    \/ \E i \in ConsultInputs : consult_council(1, i[1], i[2])
    \/ \E a \in Aspects : run_analyze_aspect(1, a)
    \/ consult_return(1)
    \/ \E q \in Questions : \E a \in Aspects : \E c \in SubCatalogs : analyze_call(1, q, a, c)
    \/ request_done(1)

SpecAnalyze == Init /\ [][NextAnalyze]_vars

-----------------------------------------------------------------------------
(* Properties.                                                             *)

Labels == {"sewu", "pelu", "ruwa", "temu"}

\* connection r holds the decision of a consultation
ConsultDecision(r) ==
    /\ request[r].endpoint = "consult"
    /\ response[r].status_code = 200

\* connection r holds a decision, of a consultation or of a direct call
Decision(r) ==
    /\ request[r].endpoint \in {"consult", "synthesize"}
    /\ response[r].status_code = 200

\* the perspective stored under key c of the decision of connection r
PerspectiveOf(r, c) ==
    LET d == response[r].body.council_perspectives
    IN  d[CHOOSE i \in 1..Len(d) : d[i][1] = c][2]

FirstChars(t, k) == IF Len(t) < k THEN t ELSE SubSeq(t, 1, k)

\* C1: the perspectives of every decision returned by a consultation are
\* keyed by exactly the 4 labels sewu, pelu, ruwa, temu, each once, and the
\* perspective under a key has that key as its aspect.
C1_ExactlyFourKeys ==
    \A r \in Req : ConsultDecision(r) =>
        LET d == response[r].body.council_perspectives
        IN  /\ Len(d) = 4
            /\ {d[i][1] : i \in 1..Len(d)} = Labels
            /\ \A i \in 1..Len(d) : d[i][2].aspect = d[i][1]

C1_Witness ==
    \E r \in Req : ConsultDecision(r) /\ request[r].context # {}

\* C2: a consultation is answered only when all 4 of its analyses have
\* completed: no answer exists while one of them is pending.
C2_Barrier ==
    \A r \in Req :
        (request[r].endpoint = "consult" /\ response[r].status_code \notin {0, 503})
            => \A a \in Labels : tasks[r][a].state = "done"

\* the last analysis is complete, the first is pending, and there is no answer
C2_Witness ==
    \E r \in Req :
        /\ pc[r] = "gather"
        /\ tasks[r]["temu"].state = "done"
        /\ tasks[r]["sewu"].state = "pending"
        /\ response[r] = NoResponse

\* C3: when an analysis of a consultation has failed, the consultation is
\* answered with the internal error 500 or not yet, never with a decision;
\* a decision has 4 perspectives and each is the result of its own analysis.
C3_AllOrNothing ==
    \A r \in Req : request[r].endpoint = "consult" =>
        /\ (\E a \in Labels : tasks[r][a].state = "raised")
              => response[r].status_code \in {0, 500}
        /\ response[r].status_code = 200 =>
              LET d == response[r].body.council_perspectives
              IN  /\ Len(d) = 4
                  /\ \A i \in 1..Len(d) : tasks[r][d[i][1]].result = <<d[i][2]>>

\* one analysis has failed, another has completed, and the answer is the 500
C3_Witness ==
    \E r \in Req :
        /\ \E a \in Labels : tasks[r][a].state = "raised"
        /\ \E a \in Labels : tasks[r][a].state = "done"
        /\ response[r].status_code = 500

\* C4: the integrated text of every decision is "COSMIC DECISION: ", the
\* question, " → Integrated wisdom: " and the 4 segments of sewu, pelu, ruwa,
\* temu in this order joined by " | ", each the upper-cased label, ": ", the
\* first 50 characters of the recommendation (all of a shorter one) and "...".
C4_IntegratedText ==
    \A r \in Req : Decision(r) =>
        LET Segment(L, c) ==
                L \o ": " \o FirstChars(PerspectiveOf(r, c).recommendation, 50) \o "..."
        IN  response[r].body.integrated_decision =
                "COSMIC DECISION: " \o request[r].question \o " → Integrated wisdom: "
                \o Segment("SEWU", "sewu") \o " | " \o Segment("PELU", "pelu") \o " | "
                \o Segment("RUWA", "ruwa") \o " | " \o Segment("TEMU", "temu")

\* a decision with a recommendation longer than 50 and one shorter than 50
C4_Witness ==
    \E r \in Req :
        /\ Decision(r)
        /\ Len(PerspectiveOf(r, "sewu").recommendation) = 51
        /\ Len(PerspectiveOf(r, "temu").recommendation) = 49
        /\ request[r].question # ""

\* C5: the recommended actions of every decision are 4 entries, of sewu,
\* pelu, ruwa, temu in this order, each "Apply ", the label, " wisdom: ", the
\* first 60 characters of the recommendation and "...".
C5_RecommendedActions ==
    \A r \in Req : Decision(r) =>
        LET Entry(c) ==
                "Apply " \o c \o " wisdom: "
                \o FirstChars(PerspectiveOf(r, c).recommendation, 60) \o "..."
        IN  response[r].body.recommended_actions =
                <<Entry("sewu"), Entry("pelu"), Entry("ruwa"), Entry("temu")>>

\* a decision with a recommendation longer than 60 and one between 50 and 60
C5_Witness ==
    \E r \in Req :
        /\ Decision(r)
        /\ Len(PerspectiveOf(r, "pelu").recommendation) = 61
        /\ Len(PerspectiveOf(r, "ruwa").recommendation) = 59

\* C6: in every decision returned by a consultation each of the 4
\* perspectives has the coherence score 0.85, within [0, 1], and the cosmic
\* coherence is their arithmetic mean, 0.85.
C6_CoherenceMean ==
    \A r \in Req : ConsultDecision(r) =>
        LET d == response[r].body.council_perspectives
            total == d[1][2].coherence_score + d[2][2].coherence_score
                     + d[3][2].coherence_score + d[4][2].coherence_score
        IN  /\ \A i \in 1..Len(d) :
                  /\ d[i][2].coherence_score = 8500
                  /\ d[i][2].coherence_score >= 0
                  /\ d[i][2].coherence_score <= 10000
            /\ 4 * response[r].body.cosmic_coherence = total
            /\ response[r].body.cosmic_coherence = 8500

C6_Witness ==
    \E r \in Req : ConsultDecision(r) /\ request[r].question = ""

\* C7: every decision returned by a consultation has the consensus level 0.75
\* and the developmental stage 5.
C7_FixedConsensusAndStage ==
    \A r \in Req : ConsultDecision(r) =>
        /\ response[r].body.consensus_level = 7500
        /\ response[r].body.developmental_stage = 5

\* two decisions, of different questions and contexts
C7_Witness ==
    \E r1, r2 \in Req :
        /\ ConsultDecision(r1)
        /\ ConsultDecision(r2)
        /\ request[r1].question # request[r2].question
        /\ request[r1].context # request[r2].context

\* C8: /principles with the filter c answers exactly the catalog entries of
\* aspect c, each once and in catalog order, with count their number (11 for
\* pelu) and aspect c; without a filter it answers all 42 entries with
\* aspect "all".
C8_PrinciplesByAspect ==
    \A r \in Req :
        (request[r].endpoint = "principles" /\ response[r].status_code = 200) =>
            LET b == response[r].body
                catalog == cosmic_engine[1].principles
                pos(p) == CHOOSE k \in 1..Len(catalog) : catalog[k] = p
            IN  /\ b.count = Len(b.principles)
                /\ IF request[r].aspect = None
                   THEN /\ b.aspect = "all"
                        /\ b.count = 42
                        /\ b.principles = catalog
                   ELSE LET c == request[r].aspect[1]
                        IN  /\ b.aspect = c
                            /\ \A i \in 1..Len(b.principles) :
                                  /\ b.principles[i].council_aspect = c
                                  /\ \E k \in 1..Len(catalog) : catalog[k] = b.principles[i]
                            /\ \A i, j \in 1..Len(b.principles) :
                                  i < j => pos(b.principles[i]) < pos(b.principles[j])
                            /\ \A k \in 1..Len(catalog) :
                                  catalog[k].council_aspect = c =>
                                     \E i \in 1..Len(b.principles) : b.principles[i] = catalog[k]
                            /\ c = "pelu" => b.count = 11

C8_Witness ==
    \E r \in Req :
        /\ request[r].endpoint = "principles"
        /\ request[r].aspect = Some("pelu")
        /\ response[r].status_code = 200
        /\ response[r].body.count = 11

\* C9: the catalog of the engine has 42 entries with the ids 1..42 in
\* ascending order, each of one of the 4 aspects, and the 4 lists of
\* get_principles_by_aspect partition it: their lengths add up to 42 and
\* every entry is in exactly one of them.
C9_CatalogPartition ==
    cosmic_engine # None =>
        \A catalog \in {cosmic_engine[1].principles} :
        \A by \in {[c \in Labels |-> get_principles_by_aspect(cosmic_engine[1], c)]} :
        \A ids \in {[c \in Labels |-> {by[c][i].id : i \in 1..Len(by[c])}]} :
            /\ Len(catalog) = 42
            /\ \A k \in 1..Len(catalog) : catalog[k].id = k
            /\ \A k \in 1..Len(catalog) : catalog[k].council_aspect \in Labels
            /\ Len(by["sewu"]) + Len(by["pelu"]) + Len(by["ruwa"]) + Len(by["temu"]) = 42
            /\ \A c \in Labels : \A i \in 1..Len(by[c]) : by[c][i] = catalog[by[c][i].id]
            /\ \A k \in 1..Len(catalog) :
                  Cardinality({c \in Labels : k \in ids[c]}) = 1

C9_Witness ==
    \E r \in Req :
        /\ cosmic_engine # None
        /\ request[r].endpoint = "principles"
        /\ request[r].aspect = Some("temu")
        /\ response[r].body.count = 11

\* C10: with the engine available, a golden-ratio request with n < 0 or
\* n > 100 is answered 400 without a call of calculate_golden_progression,
\* and one with 0 <= n <= 100 is answered 200 with n as developmental stage.
C10_GoldenRange ==
    \A r \in Req :
        (request[r].endpoint = "golden" /\ cosmic_engine # None) =>
            IF request[r].n < 0 \/ request[r].n > 100
            THEN /\ response[r].status_code = 400
                 /\ "calculate_golden_progression" \notin calls[r]
            ELSE /\ response[r].status_code = 200
                 /\ response[r].body.developmental_stage = request[r].n
                 /\ response[r].body.progression_value.exponent = request[r].n
                 /\ "calculate_golden_progression" \in calls[r]

\* 101 is rejected on one connection while 100 is accepted on another
C10_Witness ==
    \E r1, r2 \in Req :
        /\ cosmic_engine # None
        /\ request[r1].endpoint = "golden" /\ request[r1].n = 101
        /\ response[r1].status_code = 400
        /\ request[r2].endpoint = "golden" /\ request[r2].n = 100
        /\ response[r2].status_code = 200

\* C11: when the engine failed to initialize, every answer of /principles,
\* /council/consult and /mathematics/golden-ratio is the 503 and /health
\* answers "degraded" with 0 principles loaded; when it is initialized,
\* /health answers "healthy" with 42 principles loaded and none of the three
\* answers 503.
C11_Availability ==
    \A r \in Req : pc[r] = "responded" =>
        IF cosmic_engine = None
        THEN /\ request[r].endpoint \in {"principles", "consult", "golden"}
                  => response[r].status_code = 503
             /\ request[r].endpoint = "health" =>
                  /\ response[r].status_code = 200
                  /\ response[r].body.status = "degraded"
                  /\ response[r].body.components.cosmic_engine = FALSE
                  /\ response[r].body.components.principles_loaded = 0
        ELSE /\ request[r].endpoint \in {"principles", "consult", "golden"}
                  => response[r].status_code \in {200, 400}
             /\ request[r].endpoint = "health" =>
                  /\ response[r].status_code = 200
                  /\ response[r].body.status = "healthy"
                  /\ response[r].body.components.cosmic_engine = TRUE
                  /\ response[r].body.components.principles_loaded = 42

\* the engine failed to initialize; a consultation is answered 503 on one
\* connection and /health answers on another
C11_Witness ==
    \E r1, r2 \in Req :
        /\ started
        /\ cosmic_engine = None
        /\ request[r1].endpoint = "consult" /\ response[r1].status_code = 503
        /\ request[r2].endpoint = "health" /\ response[r2].body.status = "degraded"

\* perspective p of aspect a applies the first two entries of aspect a of
\* the catalog, or all of them when they are fewer, and recommends them
AppliesFirstTwo(p, a, catalog) ==
    LET OfAspect == {k \in 1..Len(catalog) : catalog[k].council_aspect = a}
        names == p.principles_applied
    IN  /\ Len(names) = IF Cardinality(OfAspect) >= 2 THEN 2 ELSE Cardinality(OfAspect)
        /\ \A i \in 1..Len(names) :
              \E k \in OfAspect :
                  /\ catalog[k].name = names[i]
                  /\ Cardinality({k2 \in OfAspect : k2 < k}) = i - 1
        /\ p.recommendation =
              "Apply principles: "
              \o (IF Len(names) = 0 THEN "[]"
                  ELSE IF Len(names) = 1 THEN "['" \o names[1] \o "']"
                  ELSE "['" \o names[1] \o "', '" \o names[2] \o "']")

\* C12: the perspective of every analysis applies the names of the first
\* min(2, number of entries of its aspect) catalog entries of its aspect, in
\* catalog order, and its recommendation is "Apply principles: " and the
\* rendering of these names.
C12_AppliedPrinciples ==
    \A r \in Req :
        /\ \A a \in Labels : tasks[r][a].state = "done" =>
              /\ AppliesFirstTwo(tasks[r][a].result[1], a, cosmic_engine[1].principles)
              /\ Len(tasks[r][a].result[1].principles_applied) = 2
        /\ (request[r].endpoint = "analyze" /\ response[r].status_code = 200) =>
              AppliesFirstTwo(response[r].body.perspective, request[r].aspect[1],
                              response[r].body.principles)

\* an analysis with a catalog that holds one entry of its aspect
C12_Witness ==
    \E r \in Req :
        /\ request[r].endpoint = "analyze"
        /\ response[r].status_code = 200
        /\ Len(response[r].body.principles) > 1
        /\ Len(response[r].body.perspective.principles_applied) = 1

\* C13: once lifespan has run, no step of any handler or analysis changes
\* the engine: its catalog, its framework table and whether it is there.
C13_EngineUnchanged ==
    [][started => (cosmic_engine' = cosmic_engine /\ started')]_vars

\* with the engine initialized, a decision is held on one connection and an
\* answer of /principles on another
C13_Witness ==
    \E r1, r2 \in Req :
        /\ started
        /\ cosmic_engine = Some(BenkhawiyaEngine)
        /\ ConsultDecision(r1)
        /\ request[r2].endpoint \in {"principles", "golden", "health"}
        /\ response[r2].status_code = 200

\* C14: two decisions held for the same question are equal, whatever the
\* contexts of the two consultations were (a missing context included) and
\* whatever was called in between.
C14_ContextIgnored ==
    \A r1, r2 \in Req :
        /\ ConsultDecision(r1)
        /\ ConsultDecision(r2)
        /\ request[r1].question = request[r2].question
        => response[r1].body = response[r2].body

\* two decisions for one question, one consultation with a context that has
\* an entry and one without
C14_Witness ==
    \E r1, r2 \in Req :
        /\ ConsultDecision(r1)
        /\ ConsultDecision(r2)
        /\ request[r1].question = request[r2].question
        /\ request[r1].context = {}
        /\ request[r2].context # {}

\* C15: the golden-ratio endpoint asks for the engine before it validates n:
\* without an engine every request, n outside 0..100 included, is answered
\* 503, and an answer 400 is only held while the engine is there.
C15_AvailabilityBeforeValidation ==
    \A r \in Req :
        (request[r].endpoint = "golden" /\ pc[r] = "responded") =>
            /\ cosmic_engine = None => response[r].status_code = 503
            /\ response[r].status_code = 400 => cosmic_engine # None

\* without an engine, n = -1 and n = 101 have both been answered 503
C15_Witness ==
    \E r1, r2 \in Req :
        /\ started
        /\ cosmic_engine = None
        /\ request[r1].endpoint = "golden" /\ request[r1].n = N_MIN - 1
        /\ request[r2].endpoint = "golden" /\ request[r2].n = N_MAX + 1
        /\ response[r1].status_code = 503
        /\ response[r2].status_code = 503

====
